---- MODULE Spec2Model ----
(***************************************************************************)
(* saphir/src/file/mod.rs: File (a tokio file behind the futures           *)
(* AsyncRead/AsyncSeek traits) and FileStream (the chunked body stream).   *)
(*                                                                         *)
(* Bytes are identified by their offset in the file, so every byte of the  *)
(* file is distinct and a lost, repeated or misplaced byte is visible.  A  *)
(* byte string is a sequence of runs <<lo, hi>>, each the file bytes       *)
(* [lo, hi), kept in normal form (no empty run, adjacent runs merged), so  *)
(* two byte strings are equal exactly when their run sequences are.        *)
(***************************************************************************)
EXTENDS Integers, Sequences, FiniteSets, TLC

\* pub const MAX_BUFFER: usize = 65534;
MAX_BUFFER == 65534

\* Bounds of the model.
\* Reads that return fewer bytes than they could, per stream.
MaxShort == 2
\* I/O errors the source raises on reads, per stream.
MaxErrors == 1
\* Ok items whose lengths are recorded in items.
MaxItems == 4

\* Sizes of the resource when the stream is built.
Sizes == {0, 3, MAX_BUFFER, MAX_BUFFER + 1, 2 * MAX_BUFFER}
\* Window starts and ends the caller asks for.
Starts == {0, 1, MAX_BUFFER}
Ends == {0, 1, 3, MAX_BUFFER + 1, 2 * MAX_BUFFER}
\* Lengths the resource may be truncated to.
TruncLens == {0, 1, MAX_BUFFER}
\* Lengths a short read may return.
ShortSizes == {1, MAX_BUFFER - 1, MAX_BUFFER}

VARIABLES
  \* the resource and the tokio file inside File
  size,              \* FileInfo::get_size when the stream was built
  fileLen,           \* bytes the resource holds now (it may be truncated)
  pos,               \* read position of the inner file
  innerBusy,         \* the inner file has a seek in flight
  innerTarget,       \* the position that seek was requested for
  \* File
  seek_has_started,
  \* FileStream
  buffer, end_of_file, range_len, amount_read,
  \* the caller: a set_range future in flight, and its arguments
  phase, req,
  \* observations
  res,               \* what the last poll_next returned
  seekRes,           \* what the last poll_seek returned
  seekStage,         \* the phase the last poll_seek ended in
  seekOffset,        \* the offset of the last Ready(Ok(offset)) of poll_seek
  setRes,            \* what the last completed set_range returned
  window,            \* the range of the last set_range that returned Ok
  out,               \* concatenation of the Ok items yielded so far
  items,             \* lengths of the first MaxItems Ok items
  didRead,           \* the last poll_next called poll_read
  scratch,           \* length of the scratch buffer of the last poll_next
  peakBuf,           \* longest self.buffer during the last poll_next
  nErr,              \* read errors raised so far
  nShort,            \* short reads so far
  abandoned,         \* a set_range future was dropped before it completed
  reqOpen,           \* a start_seek succeeded and no poll_complete was Ready since
  polls,             \* parity of the number of poll_next calls
  seekCall,          \* the last poll_seek: did it call start_seek, was a request open
  peer,              \* a second FileStream over the same resource and window
  resp               \* the response built by respond_with_builder, if any

vars == <<size, fileLen, pos, innerBusy, innerTarget, seek_has_started,
          buffer, end_of_file, range_len, amount_read, phase, req,
          res, seekRes, seekStage, seekOffset, setRes, window, out,
          items, didRead, scratch, peakBuf, nErr, nShort, abandoned, reqOpen,
          polls, seekCall, peer, resp>>

srcVars == <<size, fileLen, pos, innerBusy, innerTarget, seek_has_started, reqOpen>>
streamVars == <<buffer, end_of_file, range_len, amount_read>>
seekObs == <<seekRes, seekStage, seekOffset, setRes, window, abandoned>>
pollObs == <<res, out, items, didRead, scratch, peakBuf, nErr, nShort, polls>>

----------------------------------------------------------------------------
\* Option<u64>
None == <<>>
Some(n) == <<n>>

Min(a, b) == IF a < b THEN a ELSE b
Max(a, b) == IF a > b THEN a ELSE b

\* Vec<u8> / Bytes as runs of file offsets.
RECURSIVE BLen(_)
BLen(b) == IF b = <<>> THEN 0 ELSE (b[Len(b)][2] - b[Len(b)][1]) + BLen(SubSeq(b, 1, Len(b) - 1))

\* Vec::extend_from_slice with the file bytes [lo, hi)
Extend(b, lo, hi) ==
  IF lo >= hi THEN b
  ELSE IF b # <<>> /\ b[Len(b)][2] = lo
       THEN [b EXCEPT ![Len(b)] = <<b[Len(b)][1], hi>>]
       ELSE Append(b, <<lo, hi>>)

RECURSIVE Concat(_, _)
Concat(a, b) == IF b = <<>> THEN a ELSE Concat(Extend(a, b[1][1], b[1][2]), Tail(b))

\* The bytes [lo, hi) of the file.
Slice(lo, hi) == Extend(<<>>, lo, hi)

\* items with the length of one more Ok item
Record(its, n) == IF Len(its) < MaxItems THEN Append(its, n) ELSE its

----------------------------------------------------------------------------
Init ==
  /\ size \in Sizes
  /\ fileLen = size
  /\ pos = 0
  /\ innerBusy = FALSE
  /\ innerTarget = 0
  /\ seek_has_started = FALSE
  /\ buffer = <<>>
  /\ end_of_file = FALSE
  /\ range_len = None
  /\ amount_read = 0
  /\ phase = "new"
  /\ req = <<0, 0>>
  /\ res = "none"
  /\ seekRes = "none"
  /\ seekStage = "none"
  /\ seekOffset = 0
  /\ setRes = "none"
  /\ window = <<0, 0>>
  /\ out = <<>>
  /\ items = <<>>
  /\ didRead = FALSE
  /\ scratch = 0
  /\ peakBuf = 0
  /\ nErr = 0
  /\ nShort = 0
  /\ abandoned = FALSE
  /\ reqOpen = FALSE
  /\ polls = 0
  /\ seekCall = [started |-> FALSE, wasOpen |-> FALSE]
  /\ peer = [started |-> FALSE, pos |-> 0, buffer |-> <<>>, end_of_file |-> FALSE,
             amount_read |-> 0, out |-> <<>>, res |-> "none", nShort |-> 0]
  /\ resp = None

----------------------------------------------------------------------------
(* The tokio file inside File (self.inner).  f is the File with its inner  *)
(* file: flag (seek_has_started), busy and target (the seek in flight),    *)
(* pos, open (reqOpen), started (start_seek was called in this poll_seek). *)
(* Each operator gives the answers the file may give to one call, with the *)
(* file as the call leaves it.                                             *)

FileRec == [flag |-> seek_has_started, busy |-> innerBusy, target |-> innerTarget,
            pos |-> pos, open |-> reqOpen, started |-> FALSE]

\* self.inner.as_mut().start_seek(cx, pos)
inner_start_seek(f, p) ==
  { [ans |-> "ok", f |-> [f EXCEPT !.busy = TRUE, !.target = p, !.open = TRUE,
                                   !.started = TRUE]],
    [ans |-> "err", f |-> [f EXCEPT !.started = TRUE]],
    [ans |-> "pending", f |-> [f EXCEPT !.started = TRUE]] }

\* self.inner.as_mut().poll_complete(cx): the offset of the seek in flight, or
\* the current position when none is; a failed seek leaves the position
\* where it was or where the seek aimed.
inner_poll_complete(f) ==
  IF f.busy
  THEN { [ans |-> "ok", off |-> f.target,
          f |-> [f EXCEPT !.busy = FALSE, !.target = 0, !.pos = f.target, !.open = FALSE]],
         [ans |-> "pending", off |-> 0, f |-> f] }
       \cup { [ans |-> "err", off |-> 0,
               f |-> [f EXCEPT !.busy = FALSE, !.target = 0, !.pos = p, !.open = FALSE]]
              : p \in {f.pos, f.target} }
  ELSE { [ans |-> "ok", off |-> f.pos, f |-> [f EXCEPT !.open = FALSE]] }

\* Poll::Ready(Ok(())) => { self.seek_has_started = true; }
StartSeekOk(f) == [f EXCEPT !.flag = TRUE]

\* Faulty variant: the Err arm leaves the flag set.
CompleteReadyOkOnly(f, c) == IF c.ans = "err" THEN f ELSE [f EXCEPT !.flag = FALSE]
\* The two Ready arms of poll_complete: self.seek_has_started = false
CompleteReady(f, c) == [f EXCEPT !.flag = FALSE]

\* match self.inner.as_mut().poll_complete(cx) { ... }
poll_complete_arm(c) ==
  CASE c.ans = "ok" -> [ret |-> "ok", stage |-> "complete", off |-> c.off,
                        f |-> CompleteReady(c.f, c)]
    [] c.ans = "err" -> [ret |-> "err", stage |-> "complete", off |-> 0,
                         f |-> CompleteReady(c.f, c)]
    [] OTHER -> [ret |-> "pending", stage |-> "complete", off |-> 0, f |-> c.f]

\* if !self.seek_has_started { match self.inner.as_mut().start_seek(cx, pos) { ... } }
start_seek_arm(a) ==
  CASE a.ans = "ok" -> { poll_complete_arm(c) : c \in inner_poll_complete(StartSeekOk(a.f)) }
    [] a.ans = "err" -> { [ret |-> "err", stage |-> "request", off |-> 0, f |-> a.f] }
    [] OTHER -> { [ret |-> "pending", stage |-> "request", off |-> 0, f |-> a.f] }

\* Faulty variant: the request phase is run on every call.
PollSeekRestarting(f, p) == UNION { start_seek_arm(a) : a \in inner_start_seek(f, p) }
\* AsyncSeek for File::poll_seek(pos = SeekFrom::Start(p))
poll_seek(f, p) ==
  IF ~f.flag
  THEN UNION { start_seek_arm(a) : a \in inner_start_seek(f, p) }
  ELSE { poll_complete_arm(c) : c \in inner_poll_complete(f) }

\* Faulty variant: the window is set although the seek failed.
SetRangeLenOnError(cur, ret, r) == IF ret = "pending" THEN cur ELSE Some(r[2] - r[1])
\* set_range: self.inner.seek(SeekFrom::Start(start)).await?;
\*            self.range_len = Some(end - start);
SetRangeLen(cur, ret, r) == IF ret = "ok" THEN Some(r[2] - r[1]) ELSE cur

\* FileStream::set_range(range) is called: the future exists, not yet polled.
\* The caller sets a window on a stream it has not polled, and at most once
\* with success.
SetRangeCall ==
  /\ phase = "new"
  /\ setRes # "ok"
  /\ \E start \in Starts, end \in Ends :
        /\ start <= end
        /\ end <= size
        /\ req' = <<start, end>>
  /\ phase' = "seeking"
  /\ seekRes' = "none"
  /\ seekStage' = "none"
  /\ UNCHANGED <<srcVars, streamVars, seekOffset, setRes, window, abandoned, pollObs,
                 seekCall, peer, resp>>

\* One poll of the set_range future: one poll_seek, and on Ready the rest of
\* set_range.
PollSetRange ==
  /\ phase = "seeking"
  /\ \E o \in poll_seek(FileRec, req[1]) :
        /\ seek_has_started' = o.f.flag
        /\ innerBusy' = o.f.busy
        /\ innerTarget' = o.f.target
        /\ pos' = o.f.pos
        /\ reqOpen' = o.f.open
        /\ seekRes' = o.ret
        /\ seekStage' = o.stage
        /\ seekOffset' = IF o.ret = "ok" THEN o.off ELSE seekOffset
        /\ range_len' = SetRangeLen(range_len, o.ret, req)
        /\ setRes' = IF o.ret = "pending" THEN setRes ELSE o.ret
        /\ window' = IF o.ret = "ok" THEN req ELSE window
        /\ phase' = IF o.ret = "pending" THEN "seeking" ELSE "new"
        /\ seekCall' = [started |-> o.f.started, wasOpen |-> reqOpen]
  /\ req' = IF phase' = "new" THEN <<0, 0>> ELSE req
  /\ UNCHANGED <<size, fileLen, buffer, end_of_file, amount_read, abandoned, pollObs, peer,
                 resp>>

\* The set_range future is dropped before it completed.
DropSetRange ==
  /\ phase = "seeking"
  /\ seekRes = "pending"
  /\ phase' = "new"
  /\ abandoned' = TRUE
  /\ req' = <<0, 0>>
  /\ UNCHANGED <<srcVars, streamVars, seekRes, seekStage, seekOffset, setRes,
                 window, pollObs, seekCall, peer, resp>>

\* The resource is truncated by another process.
Truncate ==
  /\ fileLen = size
  /\ \E n \in TruncLens : n < fileLen /\ fileLen' = n
  /\ UNCHANGED <<size, pos, innerBusy, innerTarget, seek_has_started, reqOpen,
                 streamVars, phase, req, seekObs, pollObs, seekCall, peer, resp>>

----------------------------------------------------------------------------
(* FileStream::poll_next.  s is what one call works on: the stream's       *)
(* buffer, end_of_file and amount_read, the inner file's pos, busy and     *)
(* target, and the counters nErr, nShort, reads and peak.                  *)

StreamRec == [buffer |-> buffer, end_of_file |-> end_of_file, amount_read |-> amount_read,
              pos |-> pos, busy |-> innerBusy, target |-> innerTarget,
              nErr |-> nErr, nShort |-> nShort, reads |-> 0, peak |-> BLen(buffer)]

\* Where the inner file reads from: a seek still in flight (its future was
\* dropped) is resolved by the read, and moved the position or failed to.
ReadPositions(s) == IF s.busy THEN {s.target, s.pos} ELSE {s.pos}

\* The lengths a read into n bytes may return with avail bytes left in the
\* file: 0 only at the end of the file (or into an empty buffer), else all it
\* can take or, while short reads are allowed, less.
ReadSizes(n, avail, short) ==
  LET full == Min(n, avail) IN
  IF full = 0 THEN {0}
  ELSE {full} \cup (IF short THEN {k \in ShortSizes : k < full} ELSE {})

\* AsyncRead for File::poll_read(cx, buf) with buf.len() = n: the answers of
\* the inner file.  Ok(k) hands over the file bytes [p, p + k).
poll_read(s, n) ==
  { [kind |-> "pending", k |-> 0, p |-> s.pos, busy |-> s.busy, short |-> FALSE] }
  \cup (IF s.nErr < MaxErrors
        THEN { [kind |-> "err", k |-> 0, p |-> p, busy |-> FALSE, short |-> FALSE]
               : p \in ReadPositions(s) }
        ELSE {})
  \cup UNION { { [kind |-> "ok", k |-> k, p |-> p, busy |-> FALSE,
                  short |-> (k < Min(n, Max(fileLen - p, 0)))]
                 : k \in ReadSizes(n, Max(fileLen - p, 0), s.nShort < MaxShort) }
               : p \in ReadPositions(s) }

\* What a read that answered leaves in the inner file and the counters.
AfterRead(s, o) ==
  [s EXCEPT !.pos = o.p + o.k, !.busy = o.busy, !.reads = s.reads + 1,
            !.target = IF o.busy THEN s.target ELSE 0,
            !.nShort = s.nShort + (IF o.short THEN 1 ELSE 0),
            !.nErr = s.nErr + (IF o.kind = "err" THEN 1 ELSE 0)]

Grown(s) == [s EXCEPT !.peak = Max(s.peak, BLen(s.buffer))]

\* Faulty variant: a read past the window's end is kept whole.
WindowedOkUntruncated(s, usize_range, k, p) ==
  Grown([s EXCEPT !.buffer = Extend(s.buffer, p, p + k),
                  !.amount_read = s.amount_read + k,
                  !.end_of_file = (k = 0 \/ s.amount_read + k >= usize_range)])
\* Faulty variant: a zero-length read ends the stream and drops what the step
\* had collected.
WindowedOkDropOnZero(s, usize_range, k, p) ==
  IF k = 0
  THEN [s EXCEPT !.buffer = <<>>, !.end_of_file = TRUE]
  ELSE IF k + s.amount_read <= usize_range
  THEN Grown([s EXCEPT !.buffer = Extend(s.buffer, p, p + k),
                       !.amount_read = s.amount_read + k,
                       !.end_of_file = (s.amount_read + k = usize_range)])
  ELSE Grown([s EXCEPT !.buffer = Extend(s.buffer, p, p + (usize_range - s.amount_read)),
                       !.end_of_file = TRUE])
\* Windowed branch, Poll::Ready(Ok(s)): the read gave the k bytes at p.
WindowedOk(s, usize_range, k, p) ==
  IF k + s.amount_read <= usize_range
  THEN Grown([s EXCEPT !.buffer = Extend(s.buffer, p, p + k),
                       !.amount_read = s.amount_read + k,
                       !.end_of_file = (k = 0 \/ s.amount_read + k = usize_range)])
  ELSE LET amount_to_read == usize_range - s.amount_read IN
       Grown([s EXCEPT !.buffer = Extend(s.buffer, p, p + amount_to_read),
                       !.end_of_file = TRUE])

\* Faulty variant: a read replaces the buffered bytes.
UnboundedOkOverwrite(s, k, p) ==
  Grown([s EXCEPT !.buffer = IF k > 0 THEN Slice(p, p + k) ELSE s.buffer,
                  !.end_of_file = (k = 0)])
\* Faulty variant: a zero-length read drops what the step had collected.
UnboundedOkDropOnZero(s, k, p) ==
  Grown([s EXCEPT !.buffer = IF k > 0 THEN Extend(s.buffer, p, p + k) ELSE <<>>,
                  !.end_of_file = (k = 0)])
\* No-window branch, Poll::Ready(Ok(s)): the read gave the k bytes at p.
UnboundedOk(s, k, p) ==
  Grown([s EXCEPT !.buffer = IF k > 0 THEN Extend(s.buffer, p, p + k) ELSE s.buffer,
                  !.end_of_file = (k = 0)])

\* while self.amount_read < usize_range && !self.end_of_file { match poll_read ... }
RECURSIVE WindowedLoop(_, _)
WindowedArm(s, usize_range, o) ==
  CASE o.kind = "ok" ->
         UNION { WindowedLoop(s1, usize_range)
                 : s1 \in {WindowedOk(AfterRead(s, o), usize_range, o.k, o.p)} }
    [] o.kind = "err" -> { [kind |-> "err", st |-> AfterRead(s, o)] }
    [] OTHER -> { [kind |-> "pending", st |-> AfterRead(s, o)] }
WindowedLoop(s, usize_range) ==
  IF s.amount_read < usize_range /\ ~s.end_of_file
  THEN UNION { WindowedArm(s, usize_range, o) : o \in poll_read(s, usize_range) }
  ELSE { [kind |-> "ready", st |-> s] }

\* while self.buffer.len() < MAX_BUFFER && !self.end_of_file { match poll_read ... }
RECURSIVE UnboundedLoop(_)
UnboundedArm(s, o) ==
  CASE o.kind = "ok" ->
         UNION { UnboundedLoop(s1) : s1 \in {UnboundedOk(AfterRead(s, o), o.k, o.p)} }
    [] o.kind = "err" -> { [kind |-> "err", st |-> AfterRead(s, o)] }
    [] OTHER -> { [kind |-> "pending", st |-> AfterRead(s, o)] }
UnboundedLoop(s) ==
  IF BLen(s.buffer) < MAX_BUFFER /\ ~s.end_of_file
  THEN UNION { UnboundedArm(s, o) : o \in poll_read(s, MAX_BUFFER) }
  ELSE { [kind |-> "ready", st |-> s] }

\* let mut buffer = vec![0; usize_range];  /  vec![0; MAX_BUFFER];
ScratchLen(rl) == IF rl # None THEN rl[1] ELSE MAX_BUFFER

\* Faulty variant: the guard is missing.
ExhaustedIgnored(eof) == FALSE
\* if self.end_of_file { return Poll::Ready(None); }
Exhausted(eof) == eof

\* The body of poll_next after the end_of_file guard: every way its reads
\* may go.
PollBody(s, rl) == IF rl # None THEN WindowedLoop(s, rl[1]) ELSE UnboundedLoop(s)

\* Poll::Ready(Some(Ok(Bytes::from(std::mem::take(&mut self.buffer)))))
TakeBuffer(b) == <<>>

\* One call of poll_next whose outcome is one of kinds.
PollNextOf(kinds) ==
  /\ phase \in {"new", "streaming"}
  /\ phase' = "streaming"
  /\ polls' = 1 - polls
  /\ IF Exhausted(end_of_file)
     THEN /\ res' = "eos"
          /\ didRead' = FALSE
          /\ scratch' = 0
          /\ peakBuf' = BLen(buffer)
          /\ UNCHANGED <<pos, innerBusy, innerTarget, streamVars, out, items, nErr, nShort>>
     ELSE \E r \in PollBody(StreamRec, range_len) :
            /\ r.kind \in kinds
            /\ end_of_file' = r.st.end_of_file
            /\ amount_read' = r.st.amount_read
            /\ pos' = r.st.pos
            /\ innerBusy' = r.st.busy
            /\ innerTarget' = r.st.target
            /\ nErr' = r.st.nErr
            /\ nShort' = r.st.nShort
            /\ didRead' = (r.st.reads > 0)
            /\ peakBuf' = r.st.peak
            /\ scratch' = ScratchLen(range_len)
            /\ range_len' = range_len
            /\ IF r.kind = "ready"
               THEN /\ res' = "ok"
                    /\ buffer' = TakeBuffer(r.st.buffer)
                    /\ out' = Concat(out, r.st.buffer)
                    /\ items' = Record(items, BLen(r.st.buffer))
               ELSE /\ res' = r.kind
                    /\ buffer' = r.st.buffer
                    /\ UNCHANGED <<out, items>>
  /\ UNCHANGED <<size, fileLen, seek_has_started, reqOpen, req, seekObs, seekCall, peer,
                 resp>>

\* Stream for FileStream::poll_next
PollNext == PollNextOf({"ready", "err", "pending"})

\* A poll_next all of whose reads the source answers with data.
PollNextAnswered == PollNextOf({"ready"})

----------------------------------------------------------------------------
(* A second FileStream over the same resource, built with the same window  *)
(* as the first (FileStream::new, then the same set_range or none).  It    *)
(* has its own file handle, so its own position, buffer and flags; the two *)
(* streams share nothing but the resource, so the order of their steps     *)
(* does not matter and the second is run once the first has ended.         *)

\* The first stream was built without a failed or abandoned seek and has
\* read the resource unchanged and without a read error.
CleanRun ==
  /\ (setRes = "none" /\ range_len = None) \/ (setRes = "ok" /\ range_len # None)
  /\ ~abandoned
  /\ nErr = 0
  /\ fileLen = size

\* The stream has yielded all it will: end_of_file, or the item of an empty
\* window.
Ended(eof, r) == eof \/ (range_len = Some(0) /\ r = "ok")

\* self.inner.seek(SeekFrom::Start(start)) of the second stream's set_range
PeerStart == IF range_len # None THEN window[1] ELSE 0

PeerRec == [buffer |-> peer.buffer, end_of_file |-> peer.end_of_file,
            amount_read |-> peer.amount_read,
            pos |-> IF peer.started THEN peer.pos ELSE PeerStart,
            busy |-> FALSE, target |-> 0,
            nErr |-> MaxErrors, nShort |-> peer.nShort, reads |-> 0, peak |-> 0]

\* FileStream::poll_next of the second stream, under its own schedule of
\* short reads and Pending.
PollNextPeer ==
  /\ phase = "streaming"
  /\ CleanRun
  /\ Ended(end_of_file, res)
  /\ IF Exhausted(peer.end_of_file)
     THEN peer' = [peer EXCEPT !.res = "eos"]
     ELSE \E r \in PollBody(PeerRec, range_len) :
            peer' = [started |-> TRUE, pos |-> r.st.pos,
                     end_of_file |-> r.st.end_of_file,
                     amount_read |-> r.st.amount_read,
                     nShort |-> r.st.nShort,
                     buffer |-> IF r.kind = "ready" THEN TakeBuffer(r.st.buffer)
                                ELSE r.st.buffer,
                     out |-> IF r.kind = "ready" THEN Concat(peer.out, r.st.buffer)
                             ELSE peer.out,
                     res |-> IF r.kind = "ready" THEN "ok" ELSE r.kind]
  /\ UNCHANGED <<srcVars, streamVars, phase, req, seekObs, pollObs, seekCall, resp>>

----------------------------------------------------------------------------
(* Responder for File and for FileStream.  The Builder is the response     *)
(* under construction: its status, its body and the headers set on it.     *)

ACCEPT_RANGES == "accept-ranges"
CONTENT_TYPE == "content-type"
CONTENT_LENGTH == "content-length"

\* What the resource may report of itself: FileInfo::get_mime, the MIME type
\* looked up from its path, and whether the path is a directory.
Mimes == {None, Some("image/png")}
PathMimes == {None, Some("text/css")}

\* The Builder handed to respond_with_builder.
NewBuilder == [status |-> 200, body |-> "none", headers |-> {}]
\* Builder::status, Builder::body, Builder::header
BuilderStatus(b, code) == [b EXCEPT !.status = code]
BuilderBody(b, text) == [b EXCEPT !.body = text]
BuilderHeader(b, name, value) == [b EXCEPT !.headers = @ \cup {<<name, value>>}]
\* Builder::file when it returns Ok(b): the stream is the body.
BuilderFile(b) == [b EXCEPT !.body = "file"]
HeaderValues(b, name) == {h[2] : h \in {x \in b.headers : x[1] = name}}

\* FileInfo for File::get_size: the length of the file at the path, now.
get_size == fileLen

\* let mime = if let Some(mime) = &self.get_mime() { .. } else { .. };
ContentType(mime, path_mime, is_dir) ==
  IF mime # None THEN mime[1]
  ELSE IF path_mime # None THEN path_mime[1]
  ELSE IF is_dir THEN "text/html; charset=utf-8"
  ELSE "text/plain; charset=utf-8"

\* Faulty variant: the failed attach is ignored.
AttachFailedSilently(b) == b
\* Err((b, _e)) => b.status(500).body("Unable to read file")
AttachFailed(b) == BuilderBody(BuilderStatus(b, 500), "Unable to read file")

\* The body of both respond_with_builder; attached is whether builder.file
\* returned Ok.
respond_with_builder(builder, mime, path_mime, is_dir, attached) ==
  LET ctype == ContentType(mime, path_mime, is_dir)
      len == get_size
      b == IF attached THEN BuilderFile(builder) ELSE AttachFailed(builder)
  IN  BuilderHeader(BuilderHeader(BuilderHeader(b, ACCEPT_RANGES, "bytes"),
                                  CONTENT_TYPE, ctype),
                    CONTENT_LENGTH, len)

\* respond_with_builder consumes the File or the FileStream (self): after
\* it the program calls nothing more on it.  A File is one no stream was
\* built from; File::open leaves its mime None.
Respond(kind) ==
  /\ phase = "new"
  /\ kind = "File" => (setRes = "none" /\ ~abandoned /\ range_len = None)
  /\ phase' = "responded"
  /\ \E mime \in (IF kind = "File" THEN {None} ELSE Mimes), path_mime \in PathMimes,
        is_dir \in BOOLEAN, attached \in BOOLEAN :
        resp' = Some([kind |-> kind, attached |-> attached, sizeThen |-> fileLen,
                      b |-> respond_with_builder(NewBuilder, mime, path_mime,
                                                 is_dir, attached)])
  /\ UNCHANGED <<srcVars, streamVars, req, seekObs, pollObs, seekCall, peer>>

\* Responder for File
RespondFile == Respond("File")

\* Responder for FileStream
RespondFileStream == Respond("FileStream")

Next ==
  \/ SetRangeCall
  \/ PollSetRange
  \/ DropSetRange
  \/ Truncate
  \/ PollNext
  \/ PollNextPeer
  \/ RespondFile
  \/ RespondFileStream

Spec == Init /\ [][Next]_vars

\* The consumer keeps polling and the source answers in the end.
FairSpec == Spec /\ WF_vars(PollNextAnswered)

----------------------------------------------------------------------------
(* Claims                                                                  *)

\* A window was set by a set_range that returned Ok, no set_range future was
\* dropped before it, no read failed, and the file still holds the window.
WindowServed ==
  /\ range_len # None
  /\ ~abandoned
  /\ nErr = 0
  /\ fileLen >= window[2]

\* C1: a stream whose set_range((start, end)) succeeded yields, over short
\* reads and Pending results, exactly the file bytes [start, end): what it has
\* yielded and what it still buffers is at every moment the window's bytes
\* read so far, in file order, and once it has yielded an item (or is
\* exhausted) its output is the whole window, end - start bytes.
C1_WindowBytes ==
  WindowServed =>
    /\ Concat(out, buffer) = Slice(window[1], Min(pos, window[2]))
    /\ (res = "ok" \/ end_of_file) =>
          /\ out = Slice(window[1], window[2])
          /\ BLen(out) = window[2] - window[1]

\* C1 witness: a window that starts past offset 0 was served after a short
\* read, and the last read went beyond the window's end.
C1_Witness ==
  /\ WindowServed
  /\ end_of_file
  /\ res = "eos"
  /\ window[1] > 0
  /\ nShort > 0
  /\ pos > window[2]
  /\ out = Slice(window[1], window[2])
  /\ out # <<>>

\* No set_range was ever called on the stream.
NoWindowAsked == setRes = "none" /\ ~abandoned /\ phase # "seeking"

\* C2: with no window, no read error and an unchanged file, the items yielded
\* so far followed by the buffered bytes are the file bytes [0, pos) in file
\* order (bytes buffered when poll_next returned Pending stay for a later
\* item), and at end-of-sequence the output is the whole file.
C2_WholeFile ==
  (NoWindowAsked /\ range_len = None /\ nErr = 0 /\ fileLen = size) =>
    /\ Concat(out, buffer) = Slice(0, pos)
    /\ pos <= size
    /\ (end_of_file => pos = size)
    /\ (res = "eos" => out = Slice(0, size))

\* C2 witness: a file of several chunks was streamed to end-of-sequence with
\* short reads on the way.
C2_Witness ==
  /\ NoWindowAsked
  /\ range_len = None
  /\ nErr = 0
  /\ fileLen = size
  /\ res = "eos"
  /\ nShort > 0
  /\ Len(items) >= 3
  /\ out = Slice(0, size)

\* C3: with no window, every item poll_next yields is at most MAX_BUFFER bytes
\* long.
C3_ItemAtMostMaxBuffer ==
  range_len = None => \A i \in DOMAIN items : items[i] <= MAX_BUFFER

\* C4: the stream never holds more than MAX_BUFFER bytes, in its accumulated
\* buffer or in the scratch buffer of a poll_next, whatever the window.
C4_HoldsOneChunk ==
  /\ BLen(buffer) <= MAX_BUFFER
  /\ peakBuf <= MAX_BUFFER
  /\ scratch <= MAX_BUFFER

\* C5: if the source answers in the end and no read fails, a stream that is
\* polled reaches end_of_file = true, for every window including the empty
\* one.
C5_Terminates == (phase = "streaming") ~> (end_of_file \/ nErr > 0)

\* C6: once end_of_file is true it stays true, and a poll_next made then
\* returns end-of-sequence, reads nothing from the source and leaves buffer
\* and amount_read as they were.
C6_ExhaustedTerminal ==
  [][end_of_file =>
       /\ end_of_file'
       /\ buffer' = buffer
       /\ amount_read' = amount_read
       /\ pos' = pos
       /\ (polls' # polls => (res' = "eos" /\ ~didRead'))]_vars

\* C6 witness: an exhausted stream that yielded bytes was polled again.
C6_Witness == end_of_file /\ res = "eos" /\ out # <<>>

\* C7: after poll_next has yielded an error item, every later poll_next
\* returns end-of-sequence and does not read the source.
C7_ErrorTerminal ==
  [][(nErr > 0 /\ polls' # polls) => (res' = "eos" /\ ~didRead')]_vars

C9_ExactWindowLength ==
  (range_len # None /\ ~abandoned /\ nErr = 0 /\ (res \in {"ok", "eos"} \/ end_of_file)) =>
     BLen(out) = range_len[1]

\* C10: seek_has_started is set exactly while a request phase has succeeded
\* and its completion has not been observed, and it is false after every
\* poll_seek that returned Ready, Ok or Err, from either phase.
C10_SeekFlag ==
  /\ seek_has_started <=> reqOpen
  /\ seekRes \in {"ok", "err"} => ~seek_has_started

\* C10 witness: a poll_seek whose request phase succeeded failed in its
\* completion phase.
C10_Witness == seekRes = "err" /\ seekStage = "complete" /\ ~seek_has_started /\ ~reqOpen

\* C11: two independent FileStreams over the same unchanged resource, built
\* with the same window, yield the same bytes (the concatenation of their Ok
\* items up to end-of-sequence), whatever short reads and Pending each of
\* them met.
C11_SameOutput ==
  (CleanRun /\ Ended(end_of_file, res) /\ Ended(peer.end_of_file, peer.res))
    => peer.out = out
C11_Witness ==
  /\ CleanRun /\ end_of_file /\ peer.end_of_file /\ peer.res = "eos"
  /\ nShort = 0 /\ peer.nShort > 0
  /\ range_len # None /\ window[1] > 0
  /\ peer.out = out /\ BLen(out) > 1

\* C12: the response built by respond_with_builder for a FileStream carries
\* Accept-Ranges: bytes, a Content-Type, and a Content-Length equal to the
\* full resource size when no window is set and to the window length
\* (end - start) when a window has been set.
C12_StreamHeaders ==
  (resp # None /\ resp[1].kind = "FileStream") =>
     /\ HeaderValues(resp[1].b, ACCEPT_RANGES) = {"bytes"}
     /\ HeaderValues(resp[1].b, CONTENT_TYPE) # {}
     /\ HeaderValues(resp[1].b, CONTENT_LENGTH)
          = {IF range_len = None THEN resp[1].sizeThen ELSE range_len[1]}

\* C13: within one seek on a File, a poll_seek called while seek_has_started
\* is set (a start_seek succeeded and poll_complete has not been Ready since)
\* does not call start_seek again and only calls poll_complete; a poll_seek
\* called with no request open does call start_seek.
C13_NoRestart ==
  seekRes # "none" =>
     /\ seekCall.wasOpen <=> ~seekCall.started
     /\ seekCall.wasOpen => seekStage = "complete"
C13_Witness ==
  /\ seekRes = "ok" /\ seekCall.wasOpen /\ ~seekCall.started /\ ~abandoned
  /\ seekStage = "complete" /\ ~seek_has_started

\* C14: with a window set, the bytes yielded so far never exceed end - start
\* whatever the read sizes, amount_read never exceeds range_len, and the
\* step that fills the window sets end_of_file (so that the next poll_next
\* is the end of the sequence).
C14_WindowNeverExceeded ==
  range_len # None =>
     /\ BLen(out) + BLen(buffer) <= range_len[1]
     /\ amount_read <= range_len[1]
     /\ (res = "ok" /\ BLen(out) = range_len[1]) => end_of_file

\* The windowed stream has ended with fewer bytes than end - start: a read
\* returned zero bytes before the window was filled.
EndedEarly ==
  range_len # None /\ end_of_file /\ BLen(out) + BLen(buffer) < range_len[1]

\* C15: with a window set, a zero-length read before the window is filled
\* ends the stream early and without an error: that step yields an Ok item
\* holding exactly the bytes collected so far (fewer than end - start) and
\* sets end_of_file, and the next poll_next is the end of the sequence.
C15_EarlyEnd ==
  /\ [](EndedEarly =>
          /\ res \in {"ok", "eos"}
          /\ buffer = <<>>
          /\ BLen(out) = amount_read
          /\ items = <<amount_read>>
          /\ (~abandoned /\ nErr = 0) => out = Slice(window[1], window[1] + amount_read))
  /\ [][(~end_of_file /\ EndedEarly') => res' = "ok"]_vars
  /\ [][(EndedEarly /\ polls' # polls) => (res' = "eos" /\ ~didRead')]_vars
C15_Witness ==
  /\ EndedEarly /\ res = "eos" /\ nErr = 0 /\ ~abandoned
  /\ amount_read > 0 /\ out = Slice(window[1], window[1] + amount_read)

\* C16: with no window, a step in which a read returns zero bytes still
\* yields an item, holding the bytes collected in that step, and
\* end-of-sequence comes only on the following step; an item is empty only
\* when the zero-length read is the only read that contributed to it, so a
\* run yields at most one empty item and it is the last item before
\* end-of-sequence.
C16_ZeroReadStillYields ==
  /\ [](range_len = None =>
          /\ Len(items) < MaxItems
          /\ \A i \in DOMAIN items : items[i] = 0 => (i = Len(items) /\ end_of_file)
          /\ end_of_file => (res \in {"ok", "eos"} /\ buffer = <<>> /\ items # <<>>)
          /\ res = "eos" => end_of_file)
  /\ [][(range_len = None /\ ~end_of_file /\ end_of_file')
         => /\ res' = "ok" /\ didRead'
            /\ Len(items') = Len(items) + 1
            /\ ~innerBusy => items'[Len(items')] = BLen(buffer) + (pos' - pos)
            /\ BLen(out') = BLen(out) + items'[Len(items')]]_vars
C16_Witness ==
  /\ range_len = None /\ setRes = "none" /\ end_of_file /\ res = "ok"
  /\ Len(items) = 2 /\ items[2] > 0

\* C17: a resource of exactly k * MAX_BUFFER bytes (k >= 1) streamed with no
\* window yields exactly k items of MAX_BUFFER bytes, then one empty item,
\* then end-of-sequence, for every sequence of read sizes.
C17_WholeChunksThenEmpty ==
  (NoWindowAsked /\ range_len = None /\ nErr = 0 /\ fileLen = size /\ res = "eos") =>
     /\ size = MAX_BUFFER => items = <<MAX_BUFFER, 0>>
     /\ size = 2 * MAX_BUFFER => items = <<MAX_BUFFER, MAX_BUFFER, 0>>

\* C18: a poll_seek that returns Ready(Ok(offset)) returns the offset of the
\* position passed in that same call, also when an earlier poll_seek with
\* another position was abandoned after its request phase (a dropped
\* set_range future); so after a successful set_range((start, end)) the
\* source is positioned at start.
C18_SeekReachesRequestedStart ==
  setRes = "ok" =>
     /\ seekOffset = window[1]
     /\ phase = "new" => (pos = window[1] /\ ~innerBusy)

\* C19: a set_range whose seek fails returns the error and changes nothing
\* of the stream: range_len stays as it was (None for a fresh stream), and
\* buffer, amount_read and end_of_file are untouched; a fresh stream polled
\* afterwards behaves as a no-window stream reading from wherever the source
\* is positioned.
C19_FailedSetRangeFrame ==
  /\ [][(phase = "seeking" /\ phase' = "new" /\ seekRes' = "err")
         => /\ setRes' = "err"
            /\ range_len' = range_len
            /\ buffer' = buffer
            /\ amount_read' = amount_read
            /\ end_of_file' = end_of_file]_vars
  /\ [](setRes = "err" =>
          /\ range_len = None /\ amount_read = 0
          /\ (~abandoned /\ nErr = 0 /\ fileLen = size) =>
                LET n == BLen(out) + BLen(buffer) IN
                /\ Concat(out, buffer) = Slice(pos - n, pos)
                /\ end_of_file => pos = size)
C19_Witness ==
  /\ setRes = "err" /\ range_len = None /\ ~abandoned /\ nErr = 0 /\ fileLen = size
  /\ res = "eos" /\ size > 1 /\ out = Slice(1, size)

\* C20: when builder.file returns an error, respond_with_builder, for a File
\* and for a FileStream, gives a response of status 500 with the body
\* "Unable to read file" that still carries Accept-Ranges: bytes, a
\* Content-Type and a Content-Length equal to the file size taken before the
\* attach attempt.
C20_AttachFailureResponse ==
  (resp # None /\ ~resp[1].attached) =>
     /\ resp[1].b.status = 500
     /\ resp[1].b.body = "Unable to read file"
     /\ HeaderValues(resp[1].b, ACCEPT_RANGES) = {"bytes"}
     /\ Cardinality(HeaderValues(resp[1].b, CONTENT_TYPE)) = 1
     /\ HeaderValues(resp[1].b, CONTENT_LENGTH) = {resp[1].sizeThen}
C20_Witness ==
  /\ resp # None /\ ~resp[1].attached /\ resp[1].kind = "File"
  /\ resp[1].b.status = 500 /\ resp[1].sizeThen = MAX_BUFFER
  /\ HeaderValues(resp[1].b, CONTENT_TYPE) = {"text/plain; charset=utf-8"}

============================================================================
